---- MODULE Spec2Model ----
(***************************************************************************)
(* A model of cloudbot/plugin_manager.py (class PluginManager): the hook   *)
(* registry (load_plugin / unload_plugin and the derived indices), the     *)
(* dispatch pipeline (launch, _sieve, _execute_hook, internal_launch), the *)
(* per-hook waiting queues of single_thread hooks and the periodic loops.  *)
(*                                                                         *)
(* One action is one run of a coroutine between two suspension points of   *)
(* the asyncio event loop: everything the code does without awaiting a     *)
(* pending task or future happens in one step.  The handlers themselves    *)
(* are opaque: an awaited hook task ends with an outcome drawn from a      *)
(* small set (returns, returns the stop value False, raises, rejects).     *)
(***************************************************************************)
EXTENDS Integers, Sequences, FiniteSets, TLC

(***************************************************************************)
(* The plugin files and the hooks they declare.  A plugin object is        *)
(* created by one call of load_plugin; each of the three files is loaded   *)
(* at most once, so a module id also names its Plugin object.              *)
(***************************************************************************)
Modules == {1, 2, 3}

Title(m) == CASE m = 1 -> "greeter" [] m = 2 -> "core" [] OTHER -> "extra"

\* One record per hook object: type, owning plugin, priority, single_thread,
\* function name, and the type's trigger data (aliases, triggers, event
\* types, regexes, caps or perms) in keys.
HookTab ==
  << [type |-> "on_start",  plugin |-> 1, priority |-> 0,  single_thread |-> FALSE,
      function_name |-> "g_start", keys |-> << >>],
     [type |-> "on_stop",   plugin |-> 1, priority |-> 0,  single_thread |-> FALSE,
      function_name |-> "g_stop", keys |-> << >>],
     [type |-> "command",   plugin |-> 1, priority |-> 0,  single_thread |-> TRUE,
      function_name |-> "hi_handler", keys |-> <<"hi", "hello">>],
     [type |-> "post_hook", plugin |-> 1, priority |-> 0,  single_thread |-> FALSE,
      function_name |-> "record", keys |-> << >>],
     [type |-> "periodic",  plugin |-> 1, priority |-> 0,  single_thread |-> TRUE,
      function_name |-> "tick", keys |-> << >>],
     [type |-> "perm_check", plugin |-> 1, priority |-> 0, single_thread |-> FALSE,
      function_name |-> "g_perm", keys |-> <<"p">>],
     [type |-> "irc_raw",   plugin |-> 1, priority |-> 0,  single_thread |-> FALSE,
      function_name |-> "g_raw", keys |-> <<"PRIVMSG">>],
     [type |-> "on_cap_available", plugin |-> 1, priority |-> 0, single_thread |-> FALSE,
      function_name |-> "g_cap", keys |-> <<"SASL">>],
     [type |-> "sieve",     plugin |-> 2, priority |-> 1,  single_thread |-> FALSE,
      function_name |-> "s_a", keys |-> << >>],
     [type |-> "sieve",     plugin |-> 2, priority |-> 2,  single_thread |-> FALSE,
      function_name |-> "s_b", keys |-> << >>],
     [type |-> "command",   plugin |-> 2, priority |-> 0,  single_thread |-> TRUE,
      function_name |-> "bye_handler", keys |-> <<"hello", "bye">>],
     [type |-> "irc_raw",   plugin |-> 2, priority |-> 0,  single_thread |-> FALSE,
      function_name |-> "c_all", keys |-> <<"*">>],
     [type |-> "event",     plugin |-> 2, priority |-> 0,  single_thread |-> FALSE,
      function_name |-> "c_event", keys |-> <<"message">>],
     [type |-> "regex",     plugin |-> 2, priority |-> 0,  single_thread |-> FALSE,
      function_name |-> "c_regex", keys |-> <<"re_a">>],
     [type |-> "on_connect", plugin |-> 2, priority |-> 0, single_thread |-> FALSE,
      function_name |-> "c_connect", keys |-> << >>],
     [type |-> "irc_out",   plugin |-> 2, priority |-> 0,  single_thread |-> FALSE,
      function_name |-> "c_out", keys |-> << >>],
     [type |-> "on_cap_ack", plugin |-> 2, priority |-> 0, single_thread |-> FALSE,
      function_name |-> "c_ack", keys |-> <<"sasl">>],
     [type |-> "on_stop",   plugin |-> 2, priority |-> 0,  single_thread |-> FALSE,
      function_name |-> "c_stop", keys |-> << >>],
     [type |-> "sieve",     plugin |-> 3, priority |-> 50, single_thread |-> FALSE,
      function_name |-> "s_z", keys |-> << >>],
     [type |-> "post_hook", plugin |-> 3, priority |-> -1, single_thread |-> FALSE,
      function_name |-> "early", keys |-> << >>],
     [type |-> "command",   plugin |-> 3, priority |-> 0,  single_thread |-> FALSE,
      function_name |-> "plain", keys |-> <<"plain">>],
     [type |-> "irc_raw",   plugin |-> 3, priority |-> -1, single_thread |-> FALSE,
      function_name |-> "e_raw", keys |-> <<"PRIVMSG", "NOTICE">>],
     [type |-> "perm_check", plugin |-> 3, priority |-> -1, single_thread |-> FALSE,
      function_name |-> "e_perm", keys |-> <<"p">>],
     [type |-> "on_cap_available", plugin |-> 3, priority |-> -1, single_thread |-> FALSE,
      function_name |-> "e_cap", keys |-> <<"sasl">>],
     [type |-> "regex",     plugin |-> 3, priority |-> -1, single_thread |-> FALSE,
      function_name |-> "e_regex", keys |-> <<"re_b", "re_a">>],
     [type |-> "on_connect", plugin |-> 3, priority |-> -1, single_thread |-> FALSE,
      function_name |-> "e_connect", keys |-> << >>],
     [type |-> "post_hook", plugin |-> 1, priority |-> 1,  single_thread |-> TRUE,
      function_name |-> "audit", keys |-> << >>],
     [type |-> "on_stop",   plugin |-> 2, priority |-> 0,  single_thread |-> FALSE,
      function_name |-> "c_flush", keys |-> << >>] >>

Hooks == 1..Len(HookTab)

\* plugin.hooks[type]: the plugin's hooks of one type, in declaration order.
PluginHooks(m, t) ==
  SelectSeq([i \in 1..Len(HookTab) |-> i],
            LAMBDA h : HookTab[h].plugin = m /\ HookTab[h].type = t)

Priority(h) == HookTab[h].priority

\* RawHook.is_catch_all()
IsCatchAll(h) == \E i \in 1..Len(HookTab[h].keys) : HookTab[h].keys[i] = "*"

\* str.casefold() on the capability names the plugins use.
Casefold(s) == CASE s = "SASL" -> "sasl" [] OTHER -> s

\* hook.plugin, 0 for no hook.
PluginOf(h) == IF h \in 1..Len(HookTab) THEN HookTab[h].plugin ELSE 0

\* The key of a single_thread hook's waiting queue: (plugin.title, function_name).
HookKey(h) == <<Title(HookTab[h].plugin), HookTab[h].function_name>>


(***************************************************************************)
(* Python containers: dicts as functions whose DOMAIN is the key set,      *)
(* lists as sequences.                                                     *)
(***************************************************************************)
EmptyMap == [k \in {} |-> << >>]

\* d[k] for a key that may be absent, read as the empty list.
MapGet(d, k) == IF k \in DOMAIN d THEN d[k] ELSE << >>

MapPut(d, k, v) == [x \in DOMAIN d \cup {k} |-> IF x = k THEN v ELSE d[x]]

\* del d[k]
MapDel(d, k) == [x \in DOMAIN d \ {k} |-> d[x]]

\* The position of the first element of lst equal to x, 0 when there is none.
IndexOf(lst, x) ==
  IF \E i \in 1..Len(lst) : lst[i] = x
  THEN CHOOSE i \in 1..Len(lst) : lst[i] = x /\ \A j \in 1..(i - 1) : lst[j] # x
  ELSE 0

\* list.remove(x): drops the first element equal to x.
ListRemove(lst, x) ==
  LET i == IndexOf(lst, x)
  IN  IF i = 0 THEN lst
      ELSE [j \in 1..(Len(lst) - 1) |-> IF j < i THEN lst[j] ELSE lst[j + 1]]

\* A stable sort of (key, element) pairs, ascending by key.
RECURSIVE SortPairs(_)
SortPairs(ps) ==
  IF Len(ps) <= 1 THEN ps
  ELSE LET n    == Len(ps)
           init == SortPairs(SubSeq(ps, 1, n - 1))
           x    == ps[n]
           \* x goes behind every element whose key is not greater
           k    == Cardinality({i \in 1..(n - 1) : init[i][1] <= x[1]})
       IN  SubSeq(init, 1, k) \o <<x>> \o SubSeq(init, k + 1, n - 1)

\* lst.sort(key=attrgetter("priority")) on a list of hooks.
ListSort(lst) ==
  LET ps == SortPairs([i \in 1..Len(lst) |-> <<Priority(lst[i]), lst[i]>>])
  IN  [i \in 1..Len(lst) |-> ps[i][2]]

\* regex_hooks.sort(key=lambda x: x[1].priority) on a list of (regex, hook).
RegexSort(lst) ==
  LET ps == SortPairs([i \in 1..Len(lst) |-> <<Priority(lst[i][2]), lst[i]>>])
  IN  [i \in 1..Len(lst) |-> ps[i][2]]

\* Every list of a dict of lists sorted.
SortValues(d) == [k \in DOMAIN d |-> ListSort(d[k])]

RECURSIVE Concat(_)
Concat(ss) == IF ss = << >> THEN << >> ELSE Head(ss) \o Concat(Tail(ss))

\* The (key, hook) pairs the nested loops "for hook in plugin.hooks[t]: for
\* key in hook.<keys>" visit, in order.
Pairs(m, t) ==
  LET hs == PluginHooks(m, t)
  IN  Concat([i \in 1..Len(hs) |->
                [j \in 1..Len(HookTab[hs[i]].keys) |-> <<HookTab[hs[i]].keys[j], hs[i]>>]])

\* d[key].append(hook) for each pair, creating the list of a new key.
RECURSIVE AppendPairs(_, _)
AppendPairs(d, ps) ==
  IF ps = << >> THEN d
  ELSE AppendPairs(MapPut(d, Head(ps)[1], Append(MapGet(d, Head(ps)[1]), Head(ps)[2])),
                   Tail(ps))

\* d[key].remove(hook) for each pair; "if not d[key]: del d[key]".
RECURSIVE RemovePairs(_, _)
RemovePairs(d, ps) ==
  IF ps = << >> THEN d
  ELSE LET k    == Head(ps)[1]
           rest == ListRemove(MapGet(d, k), Head(ps)[2])
       IN  RemovePairs(IF rest = << >> THEN MapDel(d, k) ELSE MapPut(d, k, rest), Tail(ps))

\* d[key].remove(hook) for each pair, the emptied lists kept.
RECURSIVE RemovePairsKeep(_, _)
RemovePairsKeep(d, ps) ==
  IF ps = << >> THEN d
  ELSE RemovePairsKeep(MapPut(d, Head(ps)[1], ListRemove(MapGet(d, Head(ps)[1]), Head(ps)[2])),
                       Tail(ps))

RECURSIVE RemoveAll(_, _)
RemoveAll(lst, xs) ==
  IF xs = << >> THEN lst ELSE RemoveAll(ListRemove(lst, Head(xs)), Tail(xs))

CasefoldPairs(ps) == [i \in 1..Len(ps) |-> <<Casefold(ps[i][1]), ps[i][2]>>]

RawKeyed(m) == SelectSeq(Pairs(m, "irc_raw"), LAMBDA p : ~IsCatchAll(p[2]))

RawCatchAll(m) == SelectSeq(PluginHooks(m, "irc_raw"), IsCatchAll)

(***************************************************************************)
(* The derived indices of the registry, as one record R, and what          *)
(* load_plugin and unload_plugin do to them.  hook_hooks stands for the    *)
(* list hook_hooks["post"], the only key the code uses.                    *)
(***************************************************************************)
EmptyRegistry ==
  [commands |-> EmptyMap, raw_triggers |-> EmptyMap, catch_all_triggers |-> << >>,
   event_type_hooks |-> EmptyMap, regex_hooks |-> << >>, sieves |-> << >>,
   cap_hooks |-> [on_available |-> EmptyMap, on_ack |-> EmptyMap],
   connect_hooks |-> << >>, out_sieves |-> << >>, hook_hooks |-> << >>,
   perm_hooks |-> EmptyMap]

\* RegisterCommands without the test "if alias in self.commands": the hook
\* registered last takes the alias.
RECURSIVE RegisterCommands_LastWins(_, _)
RegisterCommands_LastWins(c, ps) ==
  IF ps = << >> THEN c
  ELSE RegisterCommands_LastWins(MapPut(c, Head(ps)[1], Head(ps)[2]), Tail(ps))

\* "if alias in self.commands: warn ... else: self.commands[alias] = command_hook"
RECURSIVE RegisterCommands(_, _)
RegisterCommands(c, ps) ==
  IF ps = << >> THEN c
  ELSE RegisterCommands(IF Head(ps)[1] \in DOMAIN c THEN c
                        ELSE MapPut(c, Head(ps)[1], Head(ps)[2]),
                        Tail(ps))

\* UnregisterCommands without the test "self.commands[alias] ==
\* command_hook": the alias is deleted whoever holds it.
RECURSIVE UnregisterCommands_AnyOwner(_, _)
UnregisterCommands_AnyOwner(c, ps) ==
  IF ps = << >> THEN c
  ELSE UnregisterCommands_AnyOwner(IF Head(ps)[1] \in DOMAIN c
                                   THEN MapDel(c, Head(ps)[1]) ELSE c,
                                   Tail(ps))

\* "if alias in self.commands and self.commands[alias] == command_hook: del"
RECURSIVE UnregisterCommands(_, _)
UnregisterCommands(c, ps) ==
  IF ps = << >> THEN c
  ELSE UnregisterCommands(IF Head(ps)[1] \in DOMAIN c /\ c[Head(ps)[1]] = Head(ps)[2]
                          THEN MapDel(c, Head(ps)[1]) ELSE c,
                          Tail(ps))

\* The appends of load_plugin, before the sorting.
AppendHooks(R, m) ==
  [commands           |-> RegisterCommands(R.commands, Pairs(m, "command")),
   raw_triggers       |-> AppendPairs(R.raw_triggers, RawKeyed(m)),
   catch_all_triggers |-> R.catch_all_triggers \o RawCatchAll(m),
   event_type_hooks   |-> AppendPairs(R.event_type_hooks, Pairs(m, "event")),
   regex_hooks        |-> R.regex_hooks \o Pairs(m, "regex"),
   sieves             |-> R.sieves \o PluginHooks(m, "sieve"),
   cap_hooks          |->
     [on_available |-> AppendPairs(R.cap_hooks.on_available,
                                   CasefoldPairs(Pairs(m, "on_cap_available"))),
      on_ack       |-> AppendPairs(R.cap_hooks.on_ack,
                                   CasefoldPairs(Pairs(m, "on_cap_ack")))],
   connect_hooks      |-> R.connect_hooks \o PluginHooks(m, "on_connect"),
   out_sieves         |-> R.out_sieves \o PluginHooks(m, "irc_out"),
   hook_hooks         |-> R.hook_hooks \o PluginHooks(m, "post_hook"),
   perm_hooks         |-> AppendPairs(R.perm_hooks, Pairs(m, "perm_check"))]

\* The sorting that ends load_plugin: the regex list, the four plain lists
\* and the lists of event_type_hooks, raw_triggers, perm_hooks, hook_hooks.
SortHooks(R) ==
  [R EXCEPT !.sieves             = ListSort(R.sieves),
            !.connect_hooks      = ListSort(R.connect_hooks),
            !.regex_hooks        = RegexSort(R.regex_hooks),
            !.catch_all_triggers = ListSort(R.catch_all_triggers),
            !.out_sieves         = ListSort(R.out_sieves),
            !.event_type_hooks   = SortValues(R.event_type_hooks),
            !.raw_triggers       = SortValues(R.raw_triggers),
            !.perm_hooks         = SortValues(R.perm_hooks),
            !.hook_hooks         = ListSort(R.hook_hooks)]

RegisterHooks(R, m) == SortHooks(AppendHooks(R, m))

\* The removals that open unload_plugin.
UnregisterHooks(R, m) ==
  [commands           |-> UnregisterCommands(R.commands, Pairs(m, "command")),
   raw_triggers       |-> RemovePairs(R.raw_triggers, RawKeyed(m)),
   catch_all_triggers |-> RemoveAll(R.catch_all_triggers, RawCatchAll(m)),
   event_type_hooks   |-> RemovePairs(R.event_type_hooks, Pairs(m, "event")),
   regex_hooks        |-> RemoveAll(R.regex_hooks, Pairs(m, "regex")),
   sieves             |-> RemoveAll(R.sieves, PluginHooks(m, "sieve")),
   cap_hooks          |->
     [on_available |-> RemovePairs(R.cap_hooks.on_available,
                                   CasefoldPairs(Pairs(m, "on_cap_available"))),
      on_ack       |-> RemovePairs(R.cap_hooks.on_ack,
                                   CasefoldPairs(Pairs(m, "on_cap_ack")))],
   connect_hooks      |-> RemoveAll(R.connect_hooks, PluginHooks(m, "on_connect")),
   out_sieves         |-> RemoveAll(R.out_sieves, PluginHooks(m, "irc_out")),
   hook_hooks         |-> RemoveAll(R.hook_hooks, PluginHooks(m, "post_hook")),
   perm_hooks         |-> RemovePairsKeep(R.perm_hooks, Pairs(m, "perm_check"))]

(***************************************************************************)
(* The state.                                                              *)
(***************************************************************************)
VARIABLES
  commands, raw_triggers, catch_all_triggers, event_type_hooks, regex_hooks,
  sieves, cap_hooks, connect_hooks, out_sieves, hook_hooks, perm_hooks,
  plugins,              \* self.plugins: the plugin objects it holds
  plugin_name_map,      \* self._plugin_name_map: the plugins find_plugin sees
  hook_waiting_queues,  \* self._hook_waiting_queues: key -> None or a Queue
  tables,               \* the plugins whose database tables are registered
  lstate,               \* where load_plugin / unload_plugin of a plugin stands
  lidx,                 \* its position in plugin.hooks["on_start" / "on_stop"]
  load_result,          \* what load_plugin of a plugin has returned
  unload_result,        \* what unload_plugin of a plugin has returned
  periodic,             \* where the _start_periodic task of a hook stands
  fr,                   \* the launch() call of each thread of control
  cancel_is_exception,  \* the interpreter: CancelledError derives from Exception
  plugin_dir,           \* the plugin files of the directory load_all scans
  dispatchers           \* the number of callers that dispatch events

registry ==
  <<commands, raw_triggers, catch_all_triggers, event_type_hooks, regex_hooks,
    sieves, cap_hooks, connect_hooks, out_sieves, hook_hooks, perm_hooks>>

vars ==
  <<commands, raw_triggers, catch_all_triggers, event_type_hooks, regex_hooks,
    sieves, cap_hooks, connect_hooks, out_sieves, hook_hooks, perm_hooks,
    plugins, plugin_name_map, hook_waiting_queues, tables, lstate, lidx,
    load_result, unload_result, periodic, fr, cancel_is_exception, plugin_dir, dispatchers>>

\* The number of callers that dispatch events concurrently.
MaxCallers == 2

\* The runs explored: the plugin files present and the number of concurrent
\* callers.  One file is run with MaxCallers callers, two files with one,
\* all three with none (loading and unloading, the periodic loop).
Environments ==
  { [files |-> {1}, callers |-> MaxCallers],
    [files |-> {1, 2, 3}, callers |-> 0],
    [files |-> {1, 2}, callers |-> 1],
    [files |-> {1, 3}, callers |-> 1],
    [files |-> {2, 3}, callers |-> 1] }

\* The number of launches that wait in one queue in the run that explores
\* the order of the waiters: one caller runs the hook, MaxWaiters wait.
MaxWaiters == 2

QueueEnvironment == [files |-> {1}, callers |-> MaxWaiters + 1]

Callers == {<<"caller", c>> : c \in 1..(MaxWaiters + 1)}

PeriodicHooks == {h \in Hooks : HookTab[h].type = "periodic"}

\* The threads of control that call launch(): the callers that dispatch
\* events, load_plugin / unload_plugin of each plugin (for its on_start and
\* on_stop hooks) and the _start_periodic task of each periodic hook.
Procs ==
  Callers \cup {<<"plugin", m>> : m \in Modules}
          \cup {<<"periodic", h>> : h \in PeriodicHooks}

\* PostHookEvent(launched_hook=..., result=..., error=...): ok says that
\* error is None.
NoEvent == [launched_hook |-> 0, ok |-> FALSE]

\* One call of launch(hook, event).  pc is the await it is suspended at:
\*   sieve       "result = await task" of _sieve
\*   sieve_post  "await self.internal_launch(post_hook, ...)" of _sieve
\*   queue       "await future" of launch
\*   hook        "out = await task" of internal_launch, for the target hook
\*   hook_post   "await self.internal_launch(post_hook, ...)" of _execute_hook
\* done: it has returned ret; raised: an exception has left it.
\* cur is the hook whose task is awaited; si and pi are the positions of the
\* list iterators over self.sieves and self.hook_hooks["post"]; ok is the
\* result of the unit last run (a sieve returned an event, the hook did not
\* raise); fut is the state of its future in the waiting queue.
\* The remaining fields record what has happened, for the properties:
\* sstart the sieves registered when the launch began, slog the sieves
\* invoked, rej the length of slog when a sieve rejected or
\* failed, ran that the target hook was invoked, tres how it ended, plog the
\* post hooks invoked in the current (or last) chain, pstart and pend the
\* registered post hooks when that chain began and ended, pfull that it ran
\* to the end of the list.
IdleFrame ==
  [hook |-> 0, pc |-> "idle", cur |-> 0, si |-> 0, pi |-> 0, ok |-> FALSE,
   fut |-> "none", cancelled |-> FALSE, ret |-> "none", post_event |-> NoEvent,
   sstart |-> {}, slog |-> << >>, rej |-> 0, ran |-> FALSE, tres |-> "none",
   plog |-> << >>, pstart |-> {}, pend |-> {}, pfull |-> FALSE]

TaskWait == {"sieve", "sieve_post", "hook", "hook_post"}

Range(lst) == {lst[i] : i \in 1..Len(lst)}

\* The state as one record, for the operators that compute a step.
Now ==
  [R |-> [commands |-> commands, raw_triggers |-> raw_triggers,
          catch_all_triggers |-> catch_all_triggers,
          event_type_hooks |-> event_type_hooks, regex_hooks |-> regex_hooks,
          sieves |-> sieves, cap_hooks |-> cap_hooks,
          connect_hooks |-> connect_hooks, out_sieves |-> out_sieves,
          hook_hooks |-> hook_hooks, perm_hooks |-> perm_hooks],
   plugins |-> plugins, names |-> plugin_name_map, queues |-> hook_waiting_queues,
   tables |-> tables, lstate |-> lstate, lidx |-> lidx, lres |-> load_result,
   ures |-> unload_result,
   periodic |-> periodic, fr |-> fr]

Becomes(S) ==
  /\ commands' = S.R.commands
  /\ raw_triggers' = S.R.raw_triggers
  /\ catch_all_triggers' = S.R.catch_all_triggers
  /\ event_type_hooks' = S.R.event_type_hooks
  /\ regex_hooks' = S.R.regex_hooks
  /\ sieves' = S.R.sieves
  /\ cap_hooks' = S.R.cap_hooks
  /\ connect_hooks' = S.R.connect_hooks
  /\ out_sieves' = S.R.out_sieves
  /\ hook_hooks' = S.R.hook_hooks
  /\ perm_hooks' = S.R.perm_hooks
  /\ plugins' = S.plugins
  /\ plugin_name_map' = S.names
  /\ hook_waiting_queues' = S.queues
  /\ tables' = S.tables
  /\ lstate' = S.lstate
  /\ lidx' = S.lidx
  /\ load_result' = S.lres
  /\ unload_result' = S.ures
  /\ periodic' = S.periodic
  /\ fr' = S.fr
  /\ cancel_is_exception' = cancel_is_exception
  /\ plugin_dir' = plugin_dir
  /\ dispatchers' = dispatchers

\* The value None of a waiting-queue entry (a hook runs, no Queue yet); an
\* allocated asyncio.Queue holds the waiting launches' futures in q.
NoQueue == [alloc |-> FALSE, q |-> << >>]

Lifecycle == {"on_start", "on_stop", "periodic"}

\* "task = async_util.wrap_future(coro); plugin.tasks.append(task); await task"
\* of _sieve and internal_launch: the launch of p waits for the task of hook h.
AwaitTask(S, p, h, at) ==
  [S EXCEPT !.fr[p].pc = at, !.fr[p].cur = h, !.fr[p].cancelled = FALSE]

\* "result = await self._execute_hook(hook, event)" as far as the await of
\* the target hook's task.
RunTarget(S, p) ==
  LET T == AwaitTask(S, p, S.fr[p].hook, "hook")
  IN  [T EXCEPT !.fr[p].ran = TRUE]

\* Acquire without the test "if key in self._hook_waiting_queues": every
\* launch takes the key and runs.
Acquire_NoWait(S, p) ==
  LET h == S.fr[p].hook
  IN  IF ~HookTab[h].single_thread THEN RunTarget(S, p)
      ELSE RunTarget([S EXCEPT !.queues = MapPut(S.queues, HookKey(h), NoQueue)], p)

\* launch, "if hook.single_thread:" as far as its first await.
Acquire(S, p) ==
  LET h   == S.fr[p].hook
      key == HookKey(h)
  IN  IF ~HookTab[h].single_thread THEN RunTarget(S, p)
      ELSE IF key \in DOMAIN S.queues
           THEN [S EXCEPT !.queues = MapPut(S.queues, key,
                                            [alloc |-> TRUE, q |-> Append(S.queues[key].q, p)]),
                          !.fr[p].pc = "queue", !.fr[p].fut = "pending"]
           ELSE RunTarget([S EXCEPT !.queues = MapPut(S.queues, key, NoQueue)], p)

\* "for sieve in self.bot.plugin_manager.sieves:": the list iterator takes
\* the element at its position in the list as it is now, or ends the loop.
SieveNext(S, p) ==
  LET f == S.fr[p]
  IN  IF f.si < Len(S.R.sieves)
      THEN LET sv == S.R.sieves[f.si + 1]
               T  == AwaitTask(S, p, sv, "sieve")
           IN  [T EXCEPT !.fr[p].si = f.si + 1, !.fr[p].slog = Append(f.slog, sv)]
      ELSE Acquire(S, p)

\* LaunchBegin without the test of hook.type: every launch goes through the
\* sieves.
LaunchBegin_AlwaysSieve(S, p, h) ==
  SieveNext([S EXCEPT !.fr[p] = [IdleFrame EXCEPT !.hook = h]], p)

\* A call of launch(hook, event) as far as its first await.
LaunchBegin(S, p, h) ==
  LET T == [S EXCEPT !.fr[p] = [IdleFrame EXCEPT !.hook = h]]
  IN  IF HookTab[h].type \notin Lifecycle
      THEN SieveNext([T EXCEPT !.fr[p].sstart = Range(S.R.sieves)], p)
      ELSE Acquire(T, p)

\* load_plugin from "self.plugins[plugin.file_path] = plugin" to its end:
\* the plugin is entered, its periodic tasks are created, its hooks indexed.
\* The function ends without a return statement: the call yields None.
Register(S, m) ==
  [S EXCEPT !.plugins = S.plugins \cup {m},
            !.names = S.names \cup {m},
            !.R = RegisterHooks(S.R, m),
            !.periodic = [h \in PeriodicHooks |->
                            IF HookTab[h].plugin = m THEN "sleep0" ELSE S.periodic[h]],
            !.lstate[m] = "loaded",
            !.lres[m] = "None"]

\* "for task in plugin.tasks: task.cancel()".  plugin.tasks holds the tasks
\* of the plugin's hooks that launches are awaiting and the plugin's
\* _start_periodic tasks.  Cancelling a _start_periodic task cancels what it
\* awaits: the task it is suspended on, or its future in a waiting queue (and
\* then, or if it sleeps, CancelledError ends it where nothing catches it).
CancelTasks(S, m) ==
  LET mine(p) == p[1] = "periodic" /\ HookTab[p[2]].plugin = m
  IN  [S EXCEPT
         !.fr = [p \in Procs |->
                   LET f == S.fr[p]
                   IN  IF mine(p) /\ S.periodic[p[2]] = "run"
                       THEN IF f.pc \in TaskWait THEN [f EXCEPT !.cancelled = TRUE]
                            ELSE [IdleFrame EXCEPT !.pc = "raised",
                                           !.fut = IF f.fut = "pending" THEN "cancelled"
                                                   ELSE f.fut]
                       ELSE IF f.pc \in TaskWait /\ PluginOf(f.cur) = m
                            THEN [f EXCEPT !.cancelled = TRUE]
                            ELSE f],
         !.periodic = [h \in PeriodicHooks |->
                         IF HookTab[h].plugin = m
                            /\ \/ S.periodic[h] \in {"sleep0", "sleep"}
                               \/ /\ S.periodic[h] = "run"
                                  /\ S.fr[<<"periodic", h>>].pc \notin TaskWait
                         THEN "ended" ELSE S.periodic[h]]]

\* unload_plugin from "plugin.unregister_tables(self.bot)" to "return True".
UnloadFinish(S, m) ==
  LET T == CancelTasks(S, m)
  IN  [T EXCEPT !.tables = S.tables \ {m},
                !.plugins = S.plugins \ {m},
                !.lstate[m] = "unloaded",
                !.ures[m] = "True"]

\* LoadContinue without "plugin.unregister_tables(self.bot)" on the failure
\* of an on_start hook.
LoadContinue_KeepTables(S, m) ==
  LET p  == <<"plugin", m>>
      f  == S.fr[p]
      hs == PluginHooks(m, "on_start")
      T  == [S EXCEPT !.fr[p] = IdleFrame]
  IN  IF f.pc = "raised" THEN [T EXCEPT !.lstate[m] = "load_raised"]
      ELSE IF f.ret # "true"
           THEN [T EXCEPT !.lstate[m] = "failed", !.lres[m] = "None"]
           ELSE IF S.lidx[m] < Len(hs)
                THEN LaunchBegin([T EXCEPT !.lidx[m] = S.lidx[m] + 1], p, hs[S.lidx[m] + 1])
                ELSE Register(T, m)

\* load_plugin after "success = await self.launch(on_start_hook, ...)": on a
\* failure the tables are unregistered and a bare "return" yields None.
LoadContinue(S, m) ==
  LET p  == <<"plugin", m>>
      f  == S.fr[p]
      hs == PluginHooks(m, "on_start")
      T  == [S EXCEPT !.fr[p] = IdleFrame]
  IN  IF f.pc = "raised" THEN [T EXCEPT !.lstate[m] = "load_raised"]
      ELSE IF f.ret # "true"
           THEN [T EXCEPT !.tables = S.tables \ {m}, !.lstate[m] = "failed",
                          !.lres[m] = "None"]
           ELSE IF S.lidx[m] < Len(hs)
                THEN LaunchBegin([T EXCEPT !.lidx[m] = S.lidx[m] + 1], p, hs[S.lidx[m] + 1])
                ELSE Register(T, m)

\* UnloadContinue with the result of the on_stop hook's launch tested: a
\* failed on_stop hook ends unload_plugin.
UnloadContinue_StopOnFailure(S, m) ==
  LET p  == <<"plugin", m>>
      f  == S.fr[p]
      hs == PluginHooks(m, "on_stop")
      T  == [S EXCEPT !.fr[p] = IdleFrame]
  IN  IF f.pc = "raised" \/ f.ret # "true" THEN [T EXCEPT !.lstate[m] = "unload_raised"]
      ELSE IF S.lidx[m] < Len(hs)
           THEN LaunchBegin([T EXCEPT !.lidx[m] = S.lidx[m] + 1], p, hs[S.lidx[m] + 1])
           ELSE UnloadFinish([T EXCEPT !.fr[p].ret = f.ret], m)

\* unload_plugin after "await self.launch(on_stop_hook, event)": the value
\* launch returned is not looked at (the frame keeps the last one in ret,
\* for the properties).
UnloadContinue(S, m) ==
  LET p  == <<"plugin", m>>
      f  == S.fr[p]
      hs == PluginHooks(m, "on_stop")
      T  == [S EXCEPT !.fr[p] = IdleFrame]
  IN  IF f.pc = "raised" THEN [T EXCEPT !.lstate[m] = "unload_raised"]
      ELSE IF S.lidx[m] < Len(hs)
           THEN LaunchBegin([T EXCEPT !.lidx[m] = S.lidx[m] + 1], p, hs[S.lidx[m] + 1])
           ELSE UnloadFinish([T EXCEPT !.fr[p].ret = f.ret], m)

\* _start_periodic after "await self.launch(hook, event)": it sleeps for the
\* interval, unless an exception has left launch and ends the task.
PeriodicContinue(S, h) ==
  LET p == <<"periodic", h>>
      f == S.fr[p]
  IN  IF f.pc = "raised"
      THEN [S EXCEPT !.periodic[h] = "ended",
                     !.fr[p] = [IdleFrame EXCEPT !.pc = "raised", !.fut = f.fut]]
      ELSE [S EXCEPT !.periodic[h] = "sleep", !.fr[p] = IdleFrame]

\* What the caller of launch() does when launch has returned or raised.
Continue(S, p) ==
  CASE p[1] = "caller" -> S
    [] p[1] = "periodic" -> PeriodicContinue(S, p[2])
    [] OTHER -> IF S.lstate[p[2]] = "starting" THEN LoadContinue(S, p[2])
                ELSE UnloadContinue(S, p[2])

\* An exception leaves launch.
Raise(S, p) == Continue([S EXCEPT !.fr[p].pc = "raised"], p)

\* "return False" / "return result" of launch.
Return(S, p, ok) ==
  Continue([S EXCEPT !.fr[p].pc = "done",
                     !.fr[p].ret = IF ok THEN "true" ELSE "false"], p)

\* Release that leaves the waiters of the key as they are: the launch ends
\* without 'next_future.set_result(None)'.
Release_NoWake(S, p) ==
  LET key == HookKey(S.fr[p].hook)
  IN  IF key \notin DOMAIN S.queues THEN [S EXCEPT !.fr[p].pc = "raised"]
      ELSE LET e == S.queues[key]
           IN  IF ~e.alloc \/ e.q = << >>
               THEN [S EXCEPT !.queues = MapDel(S.queues, key)]
               ELSE S

\* Release with the last waiter of the queue woken instead of its head.
Release_WakeLast(S, p) ==
  LET key == HookKey(S.fr[p].hook)
  IN  IF key \notin DOMAIN S.queues THEN [S EXCEPT !.fr[p].pc = "raised"]
      ELSE LET e == S.queues[key]
           IN  IF ~e.alloc \/ e.q = << >>
               THEN [S EXCEPT !.queues = MapDel(S.queues, key)]
               ELSE LET nxt == e.q[Len(e.q)]
                        T   == [S EXCEPT !.queues =
                                  MapPut(S.queues, key,
                                         [alloc |-> TRUE, q |-> SubSeq(e.q, 1, Len(e.q) - 1)])]
                    IN  IF S.fr[nxt].fut = "pending"
                        THEN [T EXCEPT !.fr[nxt].fut = "done"]
                        ELSE [T EXCEPT !.fr[p].pc = "raised"]

\* launch after "result = await self._execute_hook(hook, event)" of a
\* single_thread hook: the entry is deleted, or the head future of the queue
\* gets its result (set_result raises InvalidStateError on a cancelled one).
Release(S, p) ==
  LET key == HookKey(S.fr[p].hook)
  IN  IF key \notin DOMAIN S.queues THEN [S EXCEPT !.fr[p].pc = "raised"]
      ELSE LET e == S.queues[key]
           IN  IF ~e.alloc \/ e.q = << >>
               THEN [S EXCEPT !.queues = MapDel(S.queues, key)]
               ELSE LET nxt == Head(e.q)
                        T   == [S EXCEPT !.queues =
                                  MapPut(S.queues, key, [alloc |-> TRUE, q |-> Tail(e.q)])]
                    IN  IF S.fr[nxt].fut = "pending"
                        THEN [T EXCEPT !.fr[nxt].fut = "done"]
                        ELSE [T EXCEPT !.fr[p].pc = "raised"]

\* launch from the return of _execute_hook to its own return.
LaunchEnd(S, p) ==
  LET T == IF HookTab[S.fr[p].hook].single_thread THEN Release(S, p) ELSE S
  IN  IF T.fr[p].pc = "raised" THEN Continue(T, p) ELSE Return(T, p, S.fr[p].ok)

\* The end of the loop over the post hooks: _sieve returns its result to
\* launch ("if event is None: return False", else the next sieve),
\* _execute_hook returns ok.
AfterChain(S, p) ==
  LET T == [S EXCEPT !.fr[p].pend = Range(S.R.hook_hooks)]
  IN  IF S.fr[p].pc = "sieve_post"
      THEN IF S.fr[p].ok THEN SieveNext(T, p) ELSE Return(T, p, FALSE)
      ELSE LaunchEnd(T, p)

\* "for post_hook in self.hook_hooks["post"]:": the list iterator takes the
\* element at its position in the list as it is now, or ends the loop.
PostNext(S, p) ==
  LET f == S.fr[p]
  IN  IF f.pi < Len(S.R.hook_hooks)
      THEN LET q == S.R.hook_hooks[f.pi + 1]
               T == AwaitTask(S, p, q, f.pc)
           IN  [T EXCEPT !.fr[p].pi = f.pi + 1, !.fr[p].plog = Append(f.plog, q)]
      ELSE AfterChain([S EXCEPT !.fr[p].pfull = TRUE], p)

\* "post_event = partial(PostHookEvent, launched_hook=..., result=result,
\* error=error)" and the first turn of the loop over the post hooks.
BeginChain(S, p, at, ok) ==
  PostNext([S EXCEPT !.fr[p].pc = at, !.fr[p].ok = ok,
                     !.fr[p].post_event = [launched_hook |-> S.fr[p].cur, ok |-> ok],
                     !.fr[p].pi = 0, !.fr[p].plog = << >>,
                     !.fr[p].pstart = Range(S.R.hook_hooks),
                     !.fr[p].pend = {}, !.fr[p].pfull = FALSE], p)

\* _sieve after "result = await task": o is "event" (the sieve returned an
\* event), "none" (it returned None) or "raise".
SieveDone(S, p, o) ==
  BeginChain([S EXCEPT !.fr[p].rej = IF o = "event" THEN 0 ELSE Len(S.fr[p].slog)],
             p, "sieve_post", o = "event")

\* HookDone without the "except Exception" of internal_launch: what the hook
\* raises leaves launch.
HookDone_Uncaught(S, p, o) ==
  IF o = "raise" THEN Raise([S EXCEPT !.fr[p].tres = o], p)
  ELSE BeginChain([S EXCEPT !.fr[p].tres = o], p, "hook_post", TRUE)

\* internal_launch and _execute_hook after "out = await task" of the target
\* hook: o is "ok" or "raise".
HookDone(S, p, o) ==
  BeginChain([S EXCEPT !.fr[p].tres = o], p, "hook_post", o = "ok")

\* PostDone with the post hook's success taken for the result of
\* _execute_hook.
PostDone_Overwrite(S, p, o) ==
  LET T == [S EXCEPT !.fr[p].ok = (o = "ok")]
  IN  IF o = "stop" THEN AfterChain(T, p) ELSE PostNext(T, p)

\* The loop over the post hooks after "success, res = await
\* self.internal_launch(post_hook, ...)": o is "ok", "stop" (the post hook
\* returned False) or "raise".
PostDone(S, p, o) ==
  IF o = "stop" THEN AfterChain(S, p) ELSE PostNext(S, p)

Outcomes(at) ==
  CASE at = "sieve" -> {"event", "none", "raise"}
    [] at = "hook" -> {"ok", "raise"}
    [] OTHER -> {"ok", "stop", "raise"}

\* The launch of p resumes after the task it awaited has ended with o.
Resume(S, p, o) ==
  CASE S.fr[p].pc = "sieve" -> SieveDone(S, p, o)
    [] S.fr[p].pc = "hook" -> HookDone(S, p, o)
    [] OTHER -> PostDone(S, p, o)

\* The launch of p resumes after the task it awaited was cancelled:
\* "except Exception" catches CancelledError where it is an Exception,
\* otherwise it leaves launch.
ResumeCancelled(S, p) ==
  IF cancel_is_exception
  THEN Resume([S EXCEPT !.fr[p].cancelled = FALSE], p, "raise")
  ELSE Raise(S, p)

(***************************************************************************)
(* The actions.                                                            *)
(***************************************************************************)
Constructed ==
  /\ commands = EmptyMap
  /\ raw_triggers = EmptyMap
  /\ catch_all_triggers = << >>
  /\ event_type_hooks = EmptyMap
  /\ regex_hooks = << >>
  /\ sieves = << >>
  /\ cap_hooks = [on_available |-> EmptyMap, on_ack |-> EmptyMap]
  /\ connect_hooks = << >>
  /\ out_sieves = << >>
  /\ hook_hooks = << >>
  /\ perm_hooks = EmptyMap
  /\ plugins = {}
  /\ plugin_name_map = {}
  /\ hook_waiting_queues = EmptyMap
  /\ tables = {}
  /\ lstate = [m \in Modules |-> "new"]
  /\ lidx = [m \in Modules |-> 0]
  /\ load_result = [m \in Modules |-> "pending"]
  /\ unload_result = [m \in Modules |-> "pending"]
  /\ periodic = [h \in PeriodicHooks |-> "none"]
  /\ fr = [p \in Procs |-> IdleFrame]
  /\ cancel_is_exception \in BOOLEAN

Init ==
  /\ Constructed
  /\ \E e \in Environments : plugin_dir = e.files /\ dispatchers = e.callers

InitQueue ==
  /\ Constructed
  /\ plugin_dir = QueueEnvironment.files
  /\ dispatchers = QueueEnvironment.callers

\* load_plugin(path) of a plugin not loaded before, as far as its first
\* await of an on_start hook's launch, or to its end when it has none.
LoadPlugin(m) ==
  /\ m \in plugin_dir
  /\ lstate[m] = "new"
  /\ LET hs == PluginHooks(m, "on_start")
         T  == [Now EXCEPT !.tables = tables \cup {m}]
     IN  \E S \in {IF hs = << >> THEN Register(T, m)
                    ELSE LaunchBegin([T EXCEPT !.lstate[m] = "starting", !.lidx[m] = 1],
                                     <<"plugin", m>>, hs[1])} :
           Becomes(S)

\* unload_plugin(path) of a loaded plugin, as far as its first await of an
\* on_stop hook's launch, or to its end when it has none.
UnloadPlugin(m) ==
  /\ lstate[m] = "loaded"
  /\ m \in plugins
  /\ LET hs == PluginHooks(m, "on_stop")
         T  == [Now EXCEPT !.R = UnregisterHooks(Now.R, m)]
     IN  \E S \in {IF hs = << >> THEN UnloadFinish(T, m)
                    ELSE LaunchBegin([T EXCEPT !.lstate[m] = "stopping", !.lidx[m] = 1],
                                     <<"plugin", m>>, hs[1])} :
           Becomes(S)

\* The garbage collector frees an unloaded Plugin object that nothing refers
\* to any more: its entry leaves the WeakValueDictionary.
CollectPlugin(m) ==
  /\ lstate[m] = "unloaded"
  /\ m \in plugin_name_map
  /\ \A p \in Procs : PluginOf(fr[p].hook) # m /\ PluginOf(fr[p].cur) # m
  /\ \E S \in {[Now EXCEPT !.names = plugin_name_map \ {m}, !.lstate[m] = "collected"]} :
       Becomes(S)

\* A caller dispatches an event to a command hook it has looked up in the
\* indices, now or before the hook's plugin was unloaded: launch(hook, event)
\* as far as its first await.
CallerLaunch(p, h) ==
  /\ p[2] <= dispatchers
  /\ fr[p].pc \in {"idle", "done", "raised"}
  /\ HookTab[h].type = "command"
  /\ lstate[HookTab[h].plugin] \in {"loaded", "stopping", "unloaded", "unload_raised"}
  /\ \E S \in {LaunchBegin(Now, p, h)} : Becomes(S)

\* The task a launch awaits ends with outcome o and the launch runs on to its
\* next await or to its end, its caller with it.
TaskDone(p, o) ==
  /\ fr[p].pc \in TaskWait
  /\ ~fr[p].cancelled
  /\ o \in Outcomes(fr[p].pc)
  /\ \E S \in {Resume(Now, p, o)} : Becomes(S)

\* The task a launch awaits was cancelled and the launch resumes.
TaskCancelled(p) ==
  /\ fr[p].pc \in TaskWait
  /\ fr[p].cancelled
  /\ \E S \in {ResumeCancelled(Now, p)} : Becomes(S)

\* "await future" of launch returns: the future got its result.
QueueWake(p) ==
  /\ fr[p].pc = "queue"
  /\ fr[p].fut = "done"
  /\ \E S \in {RunTarget([Now EXCEPT !.fr[p].fut = "none"], p)} : Becomes(S)

\* "await asyncio.sleep(...)" of _start_periodic returns and the loop
\* launches the hook.
PeriodicWake(h) ==
  /\ periodic[h] \in {"sleep0", "sleep"}
  /\ \E S \in {LaunchBegin([Now EXCEPT !.periodic[h] = "run"], <<"periodic", h>>, h)} :
       Becomes(S)

Next ==
  \/ \E m \in Modules : LoadPlugin(m)
  \/ \E m \in Modules : UnloadPlugin(m)
  \/ \E m \in Modules : CollectPlugin(m)
  \/ \E p \in Callers, h \in Hooks : CallerLaunch(p, h)
  \/ \E p \in Procs, o \in {"event", "none", "ok", "stop", "raise"} : TaskDone(p, o)
  \/ \E p \in Procs : TaskCancelled(p)
  \/ \E p \in Procs : QueueWake(p)
  \/ \E h \in PeriodicHooks : PeriodicWake(h)

Spec == Init /\ [][Next]_vars

\* The run with MaxWaiters launches waiting behind one that executes.
SpecQueue == InitQueue /\ [][Next]_vars

(***************************************************************************)
(* Vocabulary of the properties.                                           *)
(***************************************************************************)
HooksOf(m) == {h \in Hooks : HookTab[h].plugin = m}

\* The hooks held by a dict of lists.
MapHooks(d) == UNION {Range(d[k]) : k \in DOMAIN d}

\* Every hook that some derived index holds.
IndexedHooks ==
  {commands[a] : a \in DOMAIN commands}
    \cup MapHooks(raw_triggers) \cup Range(catch_all_triggers)
    \cup MapHooks(event_type_hooks) \cup {regex_hooks[i][2] : i \in 1..Len(regex_hooks)}
    \cup Range(sieves) \cup MapHooks(cap_hooks.on_available) \cup MapHooks(cap_hooks.on_ack)
    \cup Range(connect_hooks) \cup Range(out_sieves) \cup Range(hook_hooks)
    \cup MapHooks(perm_hooks)

\* The launch of p has invoked its target hook and the invocation, its post
\* chain included, has not completed.
Executing(p) == fr[p].hook # 0 /\ fr[p].pc \in {"hook", "hook_post"}

Exclusive(p) == fr[p].hook # 0 /\ HookTab[fr[p].hook].single_thread

\* The hooks of lst are in ascending (non-descending) priority order.
Ascending(lst) ==
  \A i, j \in 1..Len(lst) : i < j => Priority(lst[i]) <= Priority(lst[j])

Occurrences(lst, x) == Cardinality({i \in 1..Len(lst) : lst[i] = x})

(***************************************************************************)
(* C1.  Mutual exclusion of a single_thread hook: of all the concurrent    *)
(* launches of hooks with one (plugin title, function name) key, at most   *)
(* one is executing the handler or the post chain that follows it.         *)
(***************************************************************************)
C1_MutualExclusion ==
  \A p, q \in Procs :
    (p # q /\ Executing(p) /\ Executing(q) /\ Exclusive(p) /\ Exclusive(q))
      => HookKey(fr[p].hook) # HookKey(fr[q].hook)

\* One launch runs the post chain of an exclusive hook while another launch
\* of the same hook waits in its queue.
C1_Witness ==
  \E p, q \in Procs :
    /\ p # q
    /\ Exclusive(p) /\ fr[p].pc = "hook_post"
    /\ fr[q].hook = fr[p].hook /\ fr[q].pc = "queue" /\ fr[q].fut = "pending"

(***************************************************************************)
(* C2.  Round trip: from any reachable registry, registering the hooks of  *)
(* a plugin not yet loaded (the end of a successful load_plugin) and then  *)
(* unregistering them (the start of unload_plugin) gives back every        *)
(* derived index exactly, key sets included.                               *)
(***************************************************************************)
C2_RoundTrip ==
  \A m \in plugin_dir :
    lstate[m] = "new" => UnregisterHooks(RegisterHooks(Now.R, m), m) = Now.R

(***************************************************************************)
(* C3.  A plugin whose on_start hook reported failure is, once load_plugin *)
(* has returned, in neither plugins nor the name map, has no hook in any   *)
(* derived index, no periodic task, and its tables are unregistered.       *)
(***************************************************************************)
C3_FailedStartLeavesNothing ==
  \A m \in Modules :
    lstate[m] = "failed" =>
      /\ m \notin plugins
      /\ m \notin plugin_name_map
      /\ HooksOf(m) \cap IndexedHooks = {}
      /\ \A h \in PeriodicHooks : HookTab[h].plugin = m => periodic[h] = "none"
      /\ m \notin tables

\* The load of greeter was aborted by its on_start hook while another plugin
\* is loaded.
C3_Witness ==
  /\ lstate[1] = "failed"
  /\ plugins # {}

(***************************************************************************)
(* C4.  In a launch of a hook that is not on_start, on_stop or periodic    *)
(* the sieves are invoked in ascending priority order, and once a sieve    *)
(* has rejected or failed no further sieve and not the target hook is      *)
(* invoked and launch returns false.                                       *)
(***************************************************************************)
C4_SievesInOrder ==
  \A p \in Procs :
    (fr[p].hook # 0 /\ HookTab[fr[p].hook].type \notin Lifecycle) =>
      /\ Ascending(fr[p].slog)
      /\ fr[p].rej # 0 =>
           /\ Len(fr[p].slog) = fr[p].rej
           /\ ~fr[p].ran
           /\ fr[p].pc = "done" => fr[p].ret = "false"

(***************************************************************************)
(* C5.  First registrant wins: when a plugin's hooks are registered, every *)
(* alias already in commands keeps its hook, and every alias of the        *)
(* plugin's command hooks that was free maps to the hook declaring it.     *)
(***************************************************************************)
C5_FirstRegistrantWins ==
  [][\A m \in Modules :
       (lstate[m] # "loaded" /\ lstate'[m] = "loaded") =>
         /\ \A a \in DOMAIN commands :
              a \in DOMAIN commands' /\ commands'[a] = commands[a]
         /\ \A i \in 1..Len(Pairs(m, "command")) :
              LET ps == Pairs(m, "command")
              IN  (ps[i][1] \notin DOMAIN commands
                   /\ \A j \in 1..(i - 1) : ps[j][1] # ps[i][1])
                    => (ps[i][1] \in DOMAIN commands' /\ commands'[ps[i][1]] = ps[i][2])
    ]_vars

\* greeter and core both declare "hello": loaded in that order, "hello" is
\* greeter's and "bye" is core's.
C5_Witness ==
  /\ lstate[1] = "loaded" /\ lstate[2] = "loaded"
  /\ "hello" \in DOMAIN commands /\ commands["hello"] = 3
  /\ "bye" \in DOMAIN commands /\ commands["bye"] = 11

(***************************************************************************)
(* C6.  Once unload_plugin of the plugin of a periodic hook has completed, *)
(* no dispatch of the hook starts: its periodic task does not await a      *)
(* handler invocation other than the one unload_plugin cancelled.          *)
(***************************************************************************)
C6_NoDispatchAfterUnload ==
  \A h \in PeriodicHooks :
    lstate[HookTab[h].plugin] \in {"unloaded", "collected"} =>
      ~(fr[<<"periodic", h>>].pc = "hook" /\ ~fr[<<"periodic", h>>].cancelled)

(***************************************************************************)
(* C7.  A post chain that was not stopped has invoked every post hook      *)
(* registered while it ran exactly once, in ascending priority order, and  *)
(* with the identity and outcome of the unit it follows.                   *)
(***************************************************************************)
C7_PostChainComplete ==
  \A p \in Procs :
    fr[p].pfull =>
      /\ \A h \in fr[p].pstart \cap fr[p].pend : Occurrences(fr[p].plog, h) = 1
      /\ Ascending(fr[p].plog)
      /\ fr[p].post_event.launched_hook \in Range(fr[p].slog) \cup {fr[p].hook}

(***************************************************************************)
(* C8.  A launch that has returned has returned true exactly when its      *)
(* target hook was invoked and ended without raising, whatever the post    *)
(* hooks did.                                                              *)
(***************************************************************************)
C8_ReturnsTargetOutcome ==
  \A p \in Callers :
    fr[p].pc = "done" =>
      (fr[p].ret = "true" <=> (fr[p].ran /\ fr[p].tres = "ok"))

\* A launch returned true although a post hook of its chain stopped the
\* chain before the end of the list.
C8_Witness ==
  \E p \in Callers :
    /\ fr[p].pc = "done" /\ fr[p].ret = "true"
    /\ fr[p].plog # << >> /\ ~fr[p].pfull

\* The launch of p, its target hook invoked, ends in this step.
Ends(p) == fr[p].pc \in {"hook", "hook_post"} /\ fr'[p].pc \notin TaskWait

\* The target hook of the launch of p has raised, before or in this step.
Failed(p) == fr[p].tres = "raise" \/ (fr[p].pc = "hook" /\ TaskDone(p, "raise"))

\* This step frees the key of p's hook: its entry is deleted, or the launch
\* at the head of its queue is woken.
Released(p) ==
  \/ HookKey(fr[p].hook) \notin DOMAIN hook_waiting_queues'
  \/ \E q \in Procs : /\ fr[q].hook # 0 /\ HookKey(fr[q].hook) = HookKey(fr[p].hook)
                      /\ fr[q].fut = "pending" /\ fr'[q].fut = "done"

C10_WaitsOnlyBehindSameKey ==
  \A p \in Procs :
    (fr[p].pc = "queue" /\ lstate[HookTab[fr[p].hook].plugin] = "loaded") =>
      /\ Exclusive(p)
      /\ fr[p].fut = "pending" =>
           \E q \in Procs \ {p} :
             /\ Exclusive(q) /\ HookKey(fr[q].hook) = HookKey(fr[p].hook)
             /\ (Executing(q) \/ fr[q].pc = "queue")

(***************************************************************************)
(* C11.  load_plugin returns to its caller an outcome that tells a load    *)
(* aborted by a failed on_start hook from a load that succeeded: the value *)
(* returned for an aborted plugin differs from the value returned for a    *)
(* loaded one.                                                             *)
(***************************************************************************)
C11_LoadReportsFailure ==
  \A m, n \in Modules :
    (lstate[m] = "failed" /\ lstate[n] = "loaded") => load_result[m] # load_result[n]

\* find_plugin(title): "return self._plugin_name_map.get(title)", None as 0.
find_plugin(title) ==
  IF \E m \in plugin_name_map : Title(m) = title
  THEN CHOOSE m \in plugin_name_map : Title(m) = title
  ELSE 0

(***************************************************************************)
(* C12.  find_plugin of a plugin's title returns the plugin if and only if *)
(* the plugin is in plugins: in particular it returns None once            *)
(* unload_plugin has completed.                                            *)
(***************************************************************************)
C12_FindIffLoaded ==
  \A m \in Modules : (find_plugin(Title(m)) = m) <=> (m \in plugins)

\* The hooks of plugin m that load_plugin enters into a derived index.
Indexable(m) == {h \in HooksOf(m) : HookTab[h].type \notin Lifecycle}

(***************************************************************************)
(* C13.  At every suspension point (every state: an action runs from one   *)
(* await to the next), each plugin is either in plugins with each of its   *)
(* indexable hooks in a derived index, or not in plugins with none of its  *)
(* hooks in any derived index.                                             *)
(***************************************************************************)
C13_LoadedOrAbsent ==
  \A m \in Modules :
    \/ m \in plugins /\ Indexable(m) \subseteq IndexedHooks
    \/ m \notin plugins /\ HooksOf(m) \cap IndexedHooks = {}

\* The launch of p was woken (its future got its result) and "await future"
\* has not returned yet.
Woken(p) == fr[p].pc = "queue" /\ fr[p].fut = "done"

(***************************************************************************)
(* C14.  The waiters of one key are admitted in FIFO order.  A step that   *)
(* wakes a waiter wakes the head of its key's queue and no other launch,   *)
(* and leaves the entry a queue holding the rest; a launch that enqueues   *)
(* is put behind all the waiters of its key; and while a woken waiter has  *)
(* not resumed no other launch with its key is executing or woken (a       *)
(* launch that arrives then must enqueue).                                 *)
(***************************************************************************)
C14_WaitersFifo ==
  /\ [](\A w, p \in Procs :
          (w # p /\ Woken(w) /\ fr[p].hook # 0
           /\ HookKey(fr[p].hook) = HookKey(fr[w].hook))
            => ~Executing(p) /\ ~Woken(p))
  /\ [][\A w \in Procs :
          /\ (fr[w].fut = "pending" /\ fr'[w].fut = "done") =>
               LET key == HookKey(fr[w].hook)
               IN  /\ key \in DOMAIN hook_waiting_queues
                   /\ hook_waiting_queues[key].q # << >>
                   /\ w = Head(hook_waiting_queues[key].q)
                   /\ key \in DOMAIN hook_waiting_queues'
                   /\ hook_waiting_queues'[key] =
                        [alloc |-> TRUE, q |-> Tail(hook_waiting_queues[key].q)]
                   /\ \A p \in Procs \ {w} :
                        ~(fr[p].fut = "pending" /\ fr'[p].fut = "done")
          /\ (fr[w].pc # "queue" /\ fr'[w].pc = "queue") =>
               LET key == HookKey(fr'[w].hook)
               IN  /\ key \in DOMAIN hook_waiting_queues
                   /\ hook_waiting_queues'[key] =
                        [alloc |-> TRUE, q |-> Append(hook_waiting_queues[key].q, w)]
     ]_vars

\* One waiter was woken and has not resumed, and two launches wait behind
\* it: the one that waited with it and the one that enqueued after the wake.
C14_Witness ==
  \E w \in Callers :
    /\ Woken(w)
    /\ HookKey(fr[w].hook) \in DOMAIN hook_waiting_queues
    /\ Len(hook_waiting_queues[HookKey(fr[w].hook)].q) = MaxWaiters

\* The launches that hold the key or wait for it: they execute the hook (or
\* its post chain) or have a future in the key's queue.
Holders(key) ==
  {p \in Procs : /\ Exclusive(p) /\ HookKey(fr[p].hook) = key
                 /\ (Executing(p) \/ fr[p].pc = "queue")}

(***************************************************************************)
(* C15.  Cancellation leaks no entry: whatever tasks unload_plugin has     *)
(* cancelled, a launch that waits in the queue of a key waits behind a     *)
(* launch with that key that is executing or was woken, and so will be     *)
(* woken in its turn; it is never suspended with nothing left to wake it.  *)
(***************************************************************************)
C15_CancelClearsEntry ==
  \A p \in Procs :
    (fr[p].pc = "queue" /\ fr[p].fut = "pending") =>
      \E q \in Holders(HookKey(fr[p].hook)) \ {p} : Executing(q) \/ Woken(q)

(***************************************************************************)
(* C16.  An entry of _hook_waiting_queues exists only while a launch with  *)
(* its key is executing or has a future in its queue (waiting or woken):   *)
(* when no launch of a key is in progress the registry holds no entry for  *)
(* the key.                                                                *)
(***************************************************************************)
C16_EntryOnlyWhileHeld ==
  \A key \in DOMAIN hook_waiting_queues : Holders(key) # {}

\* Every list of a dict of lists is in ascending priority order.
Sorted(d) == \A k \in DOMAIN d : Ascending(d[k])

\* The ordered lists that load_plugin sorts ("lists_of_hooks").
SortedLists ==
  /\ Ascending(catch_all_triggers)
  /\ Sorted(raw_triggers)
  /\ Sorted(event_type_hooks)
  /\ Ascending([i \in 1..Len(regex_hooks) |-> regex_hooks[i][2]])
  /\ Ascending(sieves)
  /\ Ascending(connect_hooks)
  /\ Ascending(out_sieves)
  /\ Ascending(hook_hooks)
  /\ Sorted(perm_hooks)

(***************************************************************************)
(* C17.  Every ordered list of the registry is in ascending priority       *)
(* order in every state: the catch-all, raw-trigger, event, regex, sieve,  *)
(* connect, out-sieve, post-hook and permission lists, and the lists of    *)
(* cap_hooks["on_available"] and cap_hooks["on_ack"].                      *)
(***************************************************************************)
C17_ListsSorted ==
  /\ SortedLists
  /\ Sorted(cap_hooks.on_available)
  /\ Sorted(cap_hooks.on_ack)

\* No key of a dict of lists is left with an empty list.
NoEmptyKeys(d) == \A k \in DOMAIN d : d[k] # << >>

(***************************************************************************)
(* C18.  Once unload_plugin of a plugin has returned, no derived index     *)
(* holds a hook of the plugin, and no keyed index (raw triggers, event     *)
(* types, permissions, capabilities) holds a key with an empty list.       *)
(***************************************************************************)
C18_UnloadLeavesNoResidue ==
  \A m \in Modules :
    lstate[m] \in {"unloaded", "collected"} =>
      /\ HooksOf(m) \cap IndexedHooks = {}
      /\ NoEmptyKeys(raw_triggers)
      /\ NoEmptyKeys(event_type_hooks)
      /\ NoEmptyKeys(cap_hooks.on_available)
      /\ NoEmptyKeys(cap_hooks.on_ack)
      /\ NoEmptyKeys(perm_hooks)

\* The launch of p awaits a post hook of a chain.
InChain(p) == fr[p].pc \in {"sieve_post", "hook_post"}

\* The registered post hooks that come after h in priority order.
LaterPostHooks(h) == {g \in Range(hook_hooks) : Priority(g) > Priority(h)}

(***************************************************************************)
(* C19.  A post hook that raises does not stop its chain: in the step in   *)
(* which a post hook's invocation ends by raising, the chain goes on to    *)
(* invoke a post hook whenever a post hook after it in priority order is   *)
(* registered.                                                             *)
(***************************************************************************)
C19_RaiseDoesNotStopChain ==
  [][\A p \in Procs :
       (InChain(p) /\ TaskDone(p, "raise") /\ LaterPostHooks(fr[p].cur) # {})
         => (fr'[p].pc = fr[p].pc /\ fr'[p].plog = Append(fr[p].plog, fr'[p].cur))
    ]_vars

(***************************************************************************)
(* C20.  A single_thread post hook is serialized like any single_thread    *)
(* hook: no two launches await, in their post chains, invocations of post  *)
(* hooks with one (plugin title, function name) key at the same time.      *)
(***************************************************************************)
C20_ExclusivePostHookSerialized ==
  \A p, q \in Procs :
    (p # q /\ InChain(p) /\ InChain(q) /\ HookTab[fr[p].cur].single_thread
     /\ HookTab[fr[q].cur].single_thread)
      => HookKey(fr[p].cur) # HookKey(fr[q].cur)

(***************************************************************************)
(* C21.  While the plugin of a periodic hook stays loaded, the hook's      *)
(* _start_periodic task has not ended: whatever the dispatches did and     *)
(* whatever other plugins were loaded or unloaded, it sleeps or            *)
(* dispatches.                                                             *)
(***************************************************************************)
C21_PeriodicLoopRuns ==
  \A h \in PeriodicHooks :
    lstate[HookTab[h].plugin] = "loaded" => periodic[h] \in {"sleep0", "run", "sleep"}

\* unload_plugin of m has gone through "for task in plugin.tasks:
\* task.cancel()": no launch awaits a task of m that was not cancelled, and
\* no _start_periodic task of m sleeps.
TasksCancelled(m) ==
  /\ \A p \in Procs :
       (fr[p].pc \in TaskWait /\ PluginOf(fr[p].cur) = m) => fr[p].cancelled
  /\ \A h \in PeriodicHooks :
       HookTab[h].plugin = m => periodic[h] \notin {"sleep0", "sleep"}

C23_LifecycleBypassesSieves ==
  \A p \in Procs :
    (fr[p].hook # 0 /\ HookTab[fr[p].hook].type \in Lifecycle) =>
      /\ fr[p].slog = << >> /\ fr[p].rej = 0
      /\ fr[p].pc \notin {"sieve", "sieve_post"}
      /\ fr[p].ran \/ fr[p].pc = "queue"

\* With sieves registered, the handlers of an on_stop hook and of a periodic
\* hook are running.
C23_Witness ==
  /\ sieves # << >>
  /\ \E m \in Modules :
       lstate[m] = "stopping" /\ fr[<<"plugin", m>>].ran /\ fr[<<"plugin", m>>].pc = "hook"
  /\ \E h \in PeriodicHooks :
       fr[<<"periodic", h>>].ran /\ fr[<<"periodic", h>>].pc = "hook"

\* The hooks of lst that plugin m does not own, in their order.
Others(lst, m) == SelectSeq(lst, LAMBDA h : HookTab[h].plugin # m)

\* Going from dict of lists d to e, the hooks that m does not own have kept
\* their keys and their order.
OthersKept(d, e, m) ==
  \A k \in DOMAIN d :
    Others(d[k], m) # << >> => (k \in DOMAIN e /\ e[k] = Others(d[k], m))

(***************************************************************************)
(* C24.  unload_plugin of m changes no index entry of another plugin: in   *)
(* the step that unregisters the hooks of m every alias mapped to another  *)
(* plugin's hook keeps its hook (also an alias that m declared too and     *)
(* lost), and every list holds the other plugins' hooks it held, in the    *)
(* same order; the later steps of unload_plugin change no index.           *)
(***************************************************************************)
C24_UnloadKeepsOthers ==
  [][\A m \in Modules :
       /\ (lstate[m] = "loaded" /\ lstate'[m] # "loaded") =>
            /\ \A a \in DOMAIN commands :
                 HookTab[commands[a]].plugin # m =>
                   (a \in DOMAIN commands' /\ commands'[a] = commands[a])
            /\ OthersKept(raw_triggers, raw_triggers', m)
            /\ catch_all_triggers' = Others(catch_all_triggers, m)
            /\ OthersKept(event_type_hooks, event_type_hooks', m)
            /\ regex_hooks' = SelectSeq(regex_hooks, LAMBDA r : HookTab[r[2]].plugin # m)
            /\ sieves' = Others(sieves, m)
            /\ OthersKept(cap_hooks.on_available, cap_hooks'.on_available, m)
            /\ OthersKept(cap_hooks.on_ack, cap_hooks'.on_ack, m)
            /\ connect_hooks' = Others(connect_hooks, m)
            /\ out_sieves' = Others(out_sieves, m)
            /\ hook_hooks' = Others(hook_hooks, m)
            /\ OthersKept(perm_hooks, perm_hooks', m)
       /\ (lstate[m] = "stopping" /\ lstate'[m] # "stopping") => registry' = registry
    ]_vars

\* core, which declared "hello" after greeter and lost it, is unloaded, and
\* "hello" is still greeter's.
C24_Witness ==
  /\ lstate[1] = "loaded" /\ lstate[2] = "unloaded"
  /\ "hello" \in DOMAIN commands /\ commands["hello"] = 3
  /\ "bye" \notin DOMAIN commands

(***************************************************************************)
(* C25.  A sieve that was registered when a launch of a hook that is not   *)
(* on_start, on_stop or periodic began and is registered still (plugins    *)
(* are not loaded twice, so it was registered throughout) was invoked by   *)
(* the launch if the launch has returned with its target hook invoked.     *)
(***************************************************************************)
C25_RegisteredSieveInvoked ==
  \A p \in Callers :
    (fr[p].hook # 0 /\ fr[p].pc = "done" /\ fr[p].ran) =>
      \A sv \in fr[p].sstart \cap Range(sieves) : sv \in Range(fr[p].slog)

\* The steps without cancellation: no plugin is unloaded, so no task is
\* cancelled.
NextLive ==
  \/ \E m \in Modules : LoadPlugin(m)
  \/ \E p \in Callers, h \in Hooks : CallerLaunch(p, h)
  \/ \E p \in Procs, o \in {"event", "none", "ok", "stop", "raise"} : TaskDone(p, o)
  \/ \E p \in Procs : QueueWake(p)
  \/ \E h \in PeriodicHooks : PeriodicWake(h)

\* Every invocation of a handler or post hook terminates, and the event loop
\* runs every task that is ready: the launch of each thread of control
\* resumes when the task it awaits has ended or its future has its result.
Fairness ==
  \A p \in Procs :
    /\ WF_vars(\E o \in {"event", "none", "ok", "stop", "raise"} : TaskDone(p, o))
    /\ WF_vars(QueueWake(p))

SpecLive == InitQueue /\ [][NextLive]_vars /\ Fairness

(***************************************************************************)
(* C26.  Without cancellation and with terminating handlers, under fair    *)
(* scheduling, every launch of a single_thread hook that waits in the      *)
(* queue of its key is eventually woken and invokes its handler.           *)
(* Only launches of the callers ever wait: the on_start / on_stop launches   *)
(* of this environment are not single_thread, and a periodic hook is        *)
(* launched by its own task alone.                                          *)
(***************************************************************************)
C26_WaiterEventuallyRuns ==
  /\ [](\A p \in Procs \ Callers : fr[p].pc # "queue")
  /\ \A p \in Callers :
       (fr[p].pc = "queue") ~> (fr[p].pc = "hook" /\ fr[p].ran /\ Exclusive(p))

\* A waiter was woken while another launch still waits behind it.
C26_Witness ==
  \E w, q \in Callers :
    /\ w # q /\ Woken(w)
    /\ fr[q].pc = "queue" /\ fr[q].fut = "pending" /\ fr[q].hook = fr[w].hook

====
